---- MODULE Spec2Model ----
(***************************************************************************)
(* fibers_global (src/lib.rs): the process-wide ThreadPoolExecutor.        *)
(*                                                                         *)
(* State: the atomic cell THREAD_COUNT, the lazy static GLOBAL_EXECUTOR    *)
(* (a std::sync::Once plus the handle it holds), the executor built by     *)
(* its initializer with its driver thread and its fibers, the oneshot      *)
(* channels of the crate's example, and one program counter per client     *)
(* thread.  Every atomic access of the source (load, compare_and_swap,     *)
(* swap), every step of the lazy initializer and every poll of execute's   *)
(* loop is one action, so that threads interleave between them.            *)
(***************************************************************************)
EXTENDS Integers, Sequences, FiniteSets, TLC

\* ------------------------------------------------------------- bounds
NThreads == 3       \* client threads
MaxCalls == 3       \* API calls the threads make in all
MaxCount == 2       \* valid thread counts that callers ask for: 1..MaxCount
NumCpus  == 5       \* what num_cpus::get() answers on the modelled host

\* --------------------------------------------------- program constants
UNSET  == 0         \* AtomicUsize::new(0)
LOCKED == 65535     \* std::usize::MAX (of a 16 bit target: it is only compared)

Threads == 1..NThreads
Counts  == 1..MaxCount
\* what callers pass to set_thread_count: the valid counts, and the two
\* values its assertions reject
SetArgs == Counts \cup {UNSET, LOCKED}

\* ------------------------------------------------------------ futures
\* The futures that callers submit.  send(i) is the example's
\* lazy(move || { let _ = tx_i.send(i + 1); Ok(()) }); join is its
\* rx0.join(rx1).map(|(v0, v1)| v0 + v1); ok/err finish at their first poll
\* with an item or an error; nest is a task that itself calls
\* fibers_global::execute, lazy(|| { let _ = execute(ok(7)); Ok(()) }), which
\* the signatures of spawn and execute permit.  Its val tells how far it is:
\* 0 not started, 1 in execute's loop with its monitor Pending, 2 with its
\* monitor Ready.
Fut(k, v) == [kind |-> k, val |-> v]
SendFuts  == {Fut("send", 0), Fut("send", 1)}
JoinFut   == Fut("join", 0)
OkFut     == Fut("ok", 7)
ErrFut    == Fut("err", 9)
NestFut   == Fut("nest", 0)
NoFut     == Fut("none", 0)

\* results and monitor states are tagged values
Tag(t, v) == [tag |-> t, val |-> v]
None      == Tag("None", 0)
Pending   == Tag("Pending", 0)
Aborted   == Tag("Aborted", 0)

VARIABLES
  THREAD_COUNT,   \* the AtomicUsize cell
  once,           \* the static's Once: Incomplete, Running, Complete, Poisoned
  GLOBAL_EXECUTOR,\* the static's value: the executor its handle refers to (0: none yet)
  executor,       \* the executor under construction or built: [id, workers]
  driver,         \* the thread running executor.run(): none, running, dead
  fibers,         \* the fibers the executor holds
  monitor,        \* per thread: the state of the Monitor it polls in execute
  chan,           \* the two oneshot channels: 0 is empty
  avail,          \* the one-shot futures (they own tx0, tx1, rx0/rx1) not yet moved
  pc,             \* per thread: where it is
  op,             \* per thread: the call it is in: [name, n, fut]
  current,        \* per thread: set_thread_count's local `current`
  ret,            \* per thread: what its last completed call returned
  count,          \* per thread: the initializer's get_thread_count() value
  calls,          \* API calls made so far, by all threads
  hist            \* what has happened so far (read by the properties only)

vars == <<THREAD_COUNT, once, GLOBAL_EXECUTOR, executor, driver, fibers, monitor, chan,
          avail, pc, op, current, count, ret, calls, hist>>

NoOp == [name |-> "none", n |-> 0, fut |-> NoFut]
NoExecutor == [id |-> 0, workers |-> 0]

\* ------------------------------------------------ the code's pure parts
\* (mutant) the match without its `0 => num_cpus::get()` arm
get_thread_count_NoDefault(swapped) == swapped

\* get_thread_count's match on what the swap returned (lib.rs 49-52)
get_thread_count(swapped) == IF swapped = 0 THEN NumCpus ELSE swapped

\* (mutant) the second assertion is missing: usize::MAX is taken for a count
AssertsPass_OnlyZero(n) == n # 0
\* (mutant) the first assertion is missing: 0 is taken for a count
AssertsPass_OnlyMax(n) == n # LOCKED

\* set_thread_count's two assert_ne! (lib.rs 64-65)
AssertsPass(n) == n # 0 /\ n # LOCKED

\* (mutant) the loop without its early return
SeesLocked_Never(cur) == FALSE

\* `if current == std::usize::MAX { return false; }` (lib.rs 69-71)
SeesLocked(cur) == cur = LOCKED

\* (mutant) a load where the swap should be: the cell is read and not frozen
SwapStore_Load(old) == old

\* (mutant) the swap puts the wrong sentinel into the cell
SwapStore_Unset(old) == UNSET

\* AtomicUsize::swap(std::usize::MAX): the value the cell holds afterwards
\* (lib.rs 49)
SwapStore(old) == LOCKED

\* (mutant) a compare_and_swap that only ever replaces UNSET: the first
\* request stays
CasStore_FirstWins(cell, cur, new) == IF cell = cur /\ cell = UNSET THEN new ELSE cell
\* (mutant) a plain store where the compare_and_swap should be
CasStore_Always(cell, cur, new) == new
\* (mutant) the result of the compare_and_swap is not looked at
CasWon_Always(cell, cur) == TRUE
\* (mutant) the result of the compare_and_swap is compared the wrong way round
CasWon_Never(cell, cur) == cell # cur

\* AtomicUsize::compare_and_swap(current, new): the value the cell holds
\* afterwards, and whether `== current` holds of the value it returns (lib.rs 72)
CasStore(cell, cur, new) == IF cell = cur THEN new ELSE cell
CasWon(cell, cur) == cell = cur

\* (mutant) an initialization guard that is no mutual exclusion
OnceEnters_Racy(o) == o \in {"Incomplete", "Running"}

\* Once::call_once as lazy_static's Deref uses it (lib.rs 78-79, 114): which way a
\* thread that reaches GLOBAL_EXECUTOR goes
OnceEnters(o)  == o = "Incomplete"
OnceBlocks(o)  == o = "Running"
OncePasses(o)  == o = "Complete"
OncePanics(o)  == o = "Poisoned"

\* (mutant) a failed computation is taken for a dead executor
PollOutcome_FailedPanics(m) ==
  CASE m.tag \in {"Aborted", "Failed"} -> Tag("PanicAborted", 0)
    [] m.tag = "Ready"   -> Tag("Ok", m.val)
    [] OTHER             -> Pending
\* (mutant) a poll that finds the monitor not ready gives up
PollOutcome_GivesUp(m) ==
  CASE m.tag = "Aborted" -> Tag("PanicAborted", 0)
    [] m.tag = "Failed"  -> Tag("Err", m.val)
    [] m.tag = "Ready"   -> Tag("Ok", m.val)
    [] OTHER             -> Tag("Err", 0)

\* (mutant) a dead executor is reported like a failed computation
PollOutcome_AbortedIsErr(m) ==
  CASE m.tag \in {"Aborted", "Failed"} -> Tag("Err", m.val)
    [] m.tag = "Ready"   -> Tag("Ok", m.val)
    [] OTHER             -> Pending

\* execute's match on monitor.poll() (lib.rs 126-133): the result it returns,
\* or the panic, or Pending when it sleeps and polls again
PollOutcome(m) ==
  CASE m.tag = "Aborted" -> Tag("PanicAborted", 0)
    [] m.tag = "Failed"  -> Tag("Err", m.val)
    [] m.tag = "Ready"   -> Tag("Ok", m.val)
    [] OTHER             -> Pending

\* what one run of a fiber's future gives (the futures of the example, lib.rs
\* 21-31): the item or error a monitor would receive
FiberResult(f, ch) ==
  CASE f.kind = "ok"   -> Tag("Ready", f.val)
    [] f.kind = "err"  -> Tag("Failed", f.val)
    [] f.kind = "join" -> Tag("Ready", ch[0] + ch[1])
    [] OTHER           -> Tag("Ready", 0)
\* (mutant) a join that completes when either sender has sent
FiberRunnable_Either(f, ch) == f.kind = "join" => (ch[0] # 0 \/ ch[1] # 0)
\* a join is woken once both senders have sent; the others run at once
FiberRunnable(f, ch) == f.kind = "join" => (ch[0] # 0 /\ ch[1] # 0)
\* `tx_i.send(i + 1)` of the example's two spawned fibers
SentValue(i) == i + 1

\* --------------------------------------------------------------- Init
\* what is remembered of a thread's current (or last) call
NoCall == [afterInit |-> FALSE,        \* GLOBAL_EXECUTOR was there when it started
           workersSeen |-> 0,          \* the executor's worker count when it started
           frozenAtInvoke |-> FALSE,   \* get_thread_count's swap was over when it started
           doneBeforeSched |-> FALSE,  \* it returned before any scheduling call started
           wrote |-> FALSE,            \* it stored into THREAD_COUNT
           over |-> 0,                 \* what its last compare_and_swap found in the cell
           after |-> 0,                \* what the cell held right after that
           blocked |-> FALSE,          \* it blocked on the Once
           dead |-> FALSE,             \* execute: the driver was dead when it submitted
           handle |-> -1]              \* the executor its handle refers to (-1: no handle)

Init ==
  /\ THREAD_COUNT = UNSET
  /\ once = "Incomplete"
  /\ GLOBAL_EXECUTOR = 0
  /\ executor = NoExecutor
  /\ driver = "none"
  /\ fibers = {}
  /\ monitor = [t \in Threads |-> None]
  /\ chan = [i \in 0..1 |-> 0]
  /\ avail = SendFuts \cup {JoinFut, NestFut}
  /\ pc = [t \in Threads |-> "idle"]
  /\ op = [t \in Threads |-> NoOp]
  /\ current = [t \in Threads |-> 0]
  /\ count = [t \in Threads |-> 0]
  /\ ret = [t \in Threads |-> None]
  /\ calls = 0
  /\ hist = [schedStarted |-> FALSE,  \* a scheduling call has been invoked
             soloN |-> 0,             \* see SetInvoke
             prevSolo |-> 0,
             lastWriter |-> 0,        \* n of the last compare_and_swap that stored
             lateWrite |-> FALSE,     \* a compare_and_swap stored after the swap
             swapped |-> 0,           \* what get_thread_count's swap returned
             writerAtSwap |-> 0,      \* lastWriter at the time of that swap
             swaps |-> 0,             \* runs of get_thread_count
             builds |-> 0,            \* executors constructed
             drivers |-> 0,           \* driver threads spawned
             call |-> [t \in Threads |-> NoCall]]

\* ------------------------------------------------------------ helpers
InSet(t) == pc[t] \in {"set_load", "set_cas"}

\* Threads run the same code, so only the runs in which they make their first
\* calls in the order of their numbers are kept: every other run is one of
\* these with the threads renamed.
MayStart(t) == IF t = 1 THEN TRUE ELSE op[t - 1].name # "none"

\* the call of thread t ends and hands `value` to its caller
Return(t, value) ==
  /\ pc' = [pc EXCEPT ![t] = "idle"]
  /\ ret' = [ret EXCEPT ![t] = value]

\* thread t unwinds with a panic
Panic(t, what) ==
  /\ pc' = [pc EXCEPT ![t] = "panicked"]
  /\ ret' = [ret EXCEPT ![t] = Tag(what, 0)]

Begin(t, o) ==
  /\ pc[t] = "idle"
  /\ MayStart(t)
  /\ calls < MaxCalls
  /\ calls' = calls + 1
  /\ op' = [op EXCEPT ![t] = o]

NewCall == [NoCall EXCEPT !.afterInit = (once = "Complete"),
                          !.workersSeen = executor.workers,
                          !.frozenAtInvoke = (hist.swaps > 0)]

\* ------------------------------------------------- set_thread_count(n)
\* lib.rs 63-71: the call starts; an n that an assertion rejects panics;
\* otherwise the loop's first `let current = THREAD_COUNT.load(..)` and its early
\* return.  Nothing before the load is shared, so the call up to it is one step.
SetInvoke(t, n) ==
  /\ Begin(t, [name |-> "set", n |-> n, fut |-> NoFut])
  /\ IF ~AssertsPass(n)
       THEN /\ Panic(t, "PanicAssert")
            /\ hist' = [hist EXCEPT !.call[t] = NewCall]
            /\ UNCHANGED current
       ELSE /\ current' = [current EXCEPT ![t] = THREAD_COUNT]
            /\ IF SeesLocked(THREAD_COUNT)
                 THEN /\ Return(t, Tag("False", 0))
                      /\ hist' = [hist EXCEPT
                           !.call[t] = [NewCall EXCEPT
                                          !.doneBeforeSched = ~hist.schedStarted]]
                 ELSE /\ pc' = [pc EXCEPT ![t] = "set_cas"]
                      /\ ret' = [ret EXCEPT ![t] = None]
                      /\ hist' = [hist EXCEPT
                           !.call[t] = NewCall,
                           \* soloN: the n of the latest call, when that call ran
                           \* before any scheduling call with no other
                           \* set_thread_count in flight
                           !.soloN = IF ~hist.schedStarted /\ \A u \in Threads : ~InSet(u)
                                       THEN n ELSE 0,
                           !.prevSolo = IF ~hist.schedStarted /\ \A u \in Threads : ~InSet(u)
                                          THEN hist.soloN ELSE 0]
  /\ UNCHANGED <<THREAD_COUNT, once, GLOBAL_EXECUTOR, executor, driver, fibers, monitor,
                 chan, avail, count>>

\* lib.rs 68-71 again, after a compare_and_swap that lost
SetLoad(t) ==
  /\ pc[t] = "set_load"
  /\ current' = [current EXCEPT ![t] = THREAD_COUNT]
  /\ IF SeesLocked(THREAD_COUNT)
       THEN /\ Return(t, Tag("False", 0))
            /\ hist' = [hist EXCEPT !.call[t].doneBeforeSched = ~hist.schedStarted]
       ELSE /\ pc' = [pc EXCEPT ![t] = "set_cas"]
            /\ UNCHANGED <<ret, hist>>
  /\ UNCHANGED <<THREAD_COUNT, once, GLOBAL_EXECUTOR, executor, driver, fibers, monitor,
                 chan, avail, op, count, calls>>

\* lib.rs 72-74: the compare_and_swap; it returns true or goes round the loop
SetCas(t) ==
  /\ pc[t] = "set_cas"
  /\ THREAD_COUNT' = CasStore(THREAD_COUNT, current[t], op[t].n)
  /\ LET won    == CasWon(THREAD_COUNT, current[t])
         stored == won \/ THREAD_COUNT' # THREAD_COUNT
         h1     == [hist EXCEPT
                      !.call[t].wrote = @ \/ stored,
                      !.call[t].over = THREAD_COUNT,
                      !.call[t].after = THREAD_COUNT',
                      !.lastWriter = IF stored THEN op[t].n ELSE @,
                      !.lateWrite = @ \/ (stored /\ hist.swaps > 0)]
     IN IF won
          THEN /\ Return(t, Tag("True", 0))
               /\ hist' = [h1 EXCEPT !.call[t].doneBeforeSched = ~hist.schedStarted]
          ELSE /\ pc' = [pc EXCEPT ![t] = "set_load"]
               /\ hist' = h1
               /\ UNCHANGED ret
  /\ UNCHANGED <<once, GLOBAL_EXECUTOR, executor, driver, fibers, monitor, chan, avail,
                 op, current, count, calls>>

\* ---------------------------------------------- with the handle in hand
\* the executor holds a bag of fibers: `nth` tells apart the fibers that one
\* thread spawned with the same future
FiberOf(t, fut, owner) ==
  LET same == {g \in fibers : g.by = t /\ g.fut = fut /\ g.owner = owner}
  IN [by |-> t, fut |-> fut, owner |-> owner,
      nth |-> CHOOSE k \in 0..Cardinality(same) :
                /\ \A g \in same : g.nth # k
                /\ \A j \in 0..(k - 1) : \E g \in same : g.nth = j]
\* ThreadPoolExecutorHandle::spawn: a fiber handed to an executor whose run
\* loop has ended is dropped
Spawned(fs, f) == IF driver = "running" THEN fs \cup {f} ELSE fs

\* What thread t does with GLOBAL_EXECUTOR.clone() in its call o:
\* handle() returns it (lib.rs 113-115); spawn spawns the fiber (lib.rs 99);
\* spawn_monitor spawns it and hands the Monitor to the caller (lib.rs 109);
\* execute spawns it, keeps the Monitor and enters its loop (lib.rs 124).
Submit(t, o) ==
  CASE o.name = "handle" ->
         /\ Return(t, Tag("Handle", GLOBAL_EXECUTOR))
         /\ UNCHANGED <<fibers, monitor>>
    [] o.name = "spawn" ->
         /\ fibers' = Spawned(fibers, FiberOf(t, o.fut, 0))
         /\ Return(t, Tag("Unit", 0))
         /\ UNCHANGED monitor
    [] o.name = "spawn_monitor" ->
         /\ fibers' = Spawned(fibers, FiberOf(t, o.fut, 0))
         /\ Return(t, Tag("Monitor", 0))
         /\ UNCHANGED monitor
    [] o.name = "execute" ->
         /\ fibers' = Spawned(fibers, FiberOf(t, o.fut, t))
         /\ monitor' = [monitor EXCEPT
                          ![t] = IF driver = "running" THEN Pending ELSE Aborted]
         /\ pc' = [pc EXCEPT ![t] = "poll"]
         /\ ret' = [ret EXCEPT ![t] = None]

\* ------------------------------------------------ the scheduling calls
\* handle(), spawn, spawn_monitor and execute all start with handle(), which
\* dereferences GLOBAL_EXECUTOR (lib.rs 99, 109, 114, 124): the first thread
\* becomes the initializer, a thread that finds the initializer at work
\* blocks, a thread that finds the value goes on with its clone, and one that
\* finds the Once poisoned by the initializer's panic panics.  Nothing before
\* the access to the Once is shared, and a Complete Once never changes again,
\* so a call is one step up to the access, and one with what follows it when
\* the value is there.
SchedInvoke(t, name, fut) ==
  LET o  == [name |-> name, n |-> 0, fut |-> fut]
      h0 == [hist EXCEPT
               !.call[t] = NoCall,
               !.schedStarted = TRUE,
               !.soloN = IF ~hist.schedStarted /\ \E u \in Threads : InSet(u)
                           THEN 0 ELSE @,
               !.prevSolo = IF ~hist.schedStarted /\ \E u \in Threads : InSet(u)
                              THEN 0 ELSE @]
  IN /\ Begin(t, o)
     /\ avail' = avail \ {fut}
     /\ CASE OnceEnters(once) ->
               /\ once' = "Running"
               /\ pc' = [pc EXCEPT ![t] = "init_swap"]
               /\ ret' = [ret EXCEPT ![t] = None]
               /\ hist' = h0
               /\ UNCHANGED <<fibers, monitor>>
          [] OnceBlocks(once) ->
               /\ pc' = [pc EXCEPT ![t] = "wait"]
               /\ ret' = [ret EXCEPT ![t] = None]
               /\ hist' = [h0 EXCEPT !.call[t].blocked = TRUE]
               /\ UNCHANGED <<once, fibers, monitor>>
          [] OncePasses(once) ->
               /\ Submit(t, o)
               /\ hist' = [h0 EXCEPT
                            !.call[t].handle = GLOBAL_EXECUTOR,
                            !.call[t].dead = (name = "execute" /\ driver = "dead")]
               /\ UNCHANGED once
          [] OncePanics(once) ->
               /\ Panic(t, "PanicPoisoned")
               /\ hist' = h0
               /\ UNCHANGED <<once, fibers, monitor>>
     /\ UNCHANGED <<THREAD_COUNT, GLOBAL_EXECUTOR, executor, driver, chan, current, count>>

handle(t) == SchedInvoke(t, "handle", NoFut)
spawn(t, f) == f \in SendFuts \cap avail /\ SchedInvoke(t, "spawn", f)
spawn_monitor(t) == SchedInvoke(t, "spawn_monitor", OkFut)
execute(t, f) ==
  /\ f \in {OkFut, ErrFut} \cup ({JoinFut} \cap avail)
  /\ SchedInvoke(t, "execute", f)

\* the Once is Complete: a thread that blocked on it, and the initializer
\* itself, go on with their clone
OnceResume(t) ==
  /\ pc[t] \in {"wait", "init_done"}
  /\ OncePasses(once)
  /\ Submit(t, op[t])
  /\ hist' = [hist EXCEPT
               !.call[t].handle = GLOBAL_EXECUTOR,
               !.call[t].dead = (op[t].name = "execute" /\ driver = "dead")]
  /\ UNCHANGED <<THREAD_COUNT, once, GLOBAL_EXECUTOR, executor, driver, chan, avail, op,
                 current, count, calls>>

\* the initializer panicked: the Once is poisoned, and the threads that
\* blocked on it panic
OncePoisoned(t) ==
  /\ pc[t] = "wait"
  /\ OncePanics(once)
  /\ Panic(t, "PanicPoisoned")
  /\ UNCHANGED <<THREAD_COUNT, once, GLOBAL_EXECUTOR, executor, driver, fibers, monitor,
                 chan, avail, op, current, count, calls, hist>>

\* ------------------------------------ the initializer (lib.rs 79-91)
\* get_thread_count() (lib.rs 48-53): one atomic swap, then the match
InitSwap(t) ==
  /\ pc[t] = "init_swap"
  /\ THREAD_COUNT' = SwapStore(THREAD_COUNT)
  /\ count' = [count EXCEPT ![t] = get_thread_count(THREAD_COUNT)]
  /\ pc' = [pc EXCEPT ![t] = "init_build"]
  /\ hist' = [hist EXCEPT !.swapped = THREAD_COUNT, !.swaps = @ + 1,
                          !.writerAtSwap = hist.lastWriter]
  /\ UNCHANGED <<once, GLOBAL_EXECUTOR, executor, driver, fibers, monitor, chan, avail,
                 op, current, ret, calls>>

\* ThreadPoolExecutor::with_thread_count(..) succeeds (lib.rs 82-84)
InitBuild(t) ==
  /\ pc[t] = "init_build"
  /\ executor' = [id |-> hist.builds + 1, workers |-> count[t]]
  /\ pc' = [pc EXCEPT ![t] = "init_publish"]
  /\ hist' = [hist EXCEPT !.builds = @ + 1]
  /\ UNCHANGED <<THREAD_COUNT, once, GLOBAL_EXECUTOR, driver, fibers, monitor, chan,
                 avail, op, current, count, ret, calls>>

\* with_thread_count(..) fails and .expect(..) panics (lib.rs 83)
InitBuildFail(t) ==
  /\ pc[t] = "init_build"
  /\ once' = "Poisoned"
  /\ Panic(t, "PanicCreate")
  /\ UNCHANGED <<THREAD_COUNT, GLOBAL_EXECUTOR, executor, driver, fibers, monitor, chan,
                 avail, op, current, count, calls, hist>>

\* `let handle = executor.handle()`, std::thread::spawn(move || executor.run()..)
\* and the block's value `handle`, which becomes the static's value (lib.rs
\* 84-90).  No other thread sees the executor or its driver before the Once is
\* Complete, so this is one step.
InitPublish(t) ==
  /\ pc[t] = "init_publish"
  /\ driver' = "running"
  /\ once' = "Complete"
  /\ GLOBAL_EXECUTOR' = executor.id
  /\ pc' = [pc EXCEPT ![t] = "init_done"]
  /\ hist' = [hist EXCEPT !.drivers = @ + 1]
  /\ UNCHANGED <<THREAD_COUNT, executor, fibers, monitor, chan, avail, op,
                 current, count, ret, calls>>

\* execute: one `match monitor.poll()` (lib.rs 126-130)
ExecutePoll(t) ==
  /\ pc[t] = "poll"
  /\ LET r == PollOutcome(monitor[t])
     IN CASE r.tag = "PanicAborted" -> Panic(t, "PanicAborted")
          [] r.tag = "Pending" -> pc' = [pc EXCEPT ![t] = "sleep"] /\ UNCHANGED ret
          [] OTHER -> Return(t, r)
  /\ UNCHANGED <<THREAD_COUNT, once, GLOBAL_EXECUTOR, executor, driver, fibers, monitor,
                 chan, avail, op, current, count, calls, hist>>

\* execute: std::thread::sleep(Duration::from_millis(1)) is over (lib.rs 131)
ExecuteSleep(t) ==
  /\ pc[t] = "sleep"
  /\ pc' = [pc EXCEPT ![t] = "poll"]
  /\ UNCHANGED <<THREAD_COUNT, once, GLOBAL_EXECUTOR, executor, driver, fibers, monitor,
                 chan, avail, op, current, count, ret, calls, hist>>

\* ------------------------------------------- the executor's side
\* The executor's scheduler threads.  One that runs a task which called
\* execute sits in execute's loop (lib.rs 125-134) for as long as the call
\* lasts; the others are free to run fibers.  (A free scheduler thread is taken
\* to run any fiber that can run: fibers hands each fiber to one scheduler
\* thread for good, so the executor cannot do better than this.)
InExecute(f) == f.fut.kind = "nest" /\ f.fut.val >= 1
Busy == {f \in fibers : InExecute(f)}
FreeWorkers == executor.workers - Cardinality(Busy)

\* the computation of a task's own execute has ended: the Monitor that the
\* task polls is Ready
Deliver(fs, f) ==
  IF f.owner = -1
    THEN {IF InExecute(g) THEN [g EXCEPT !.fut = Fut("nest", 2)] ELSE g : g \in fs}
    ELSE fs

\* a scheduler thread of the running executor runs a fiber to its end
RunFiber(f) ==
  /\ f \in fibers
  /\ driver = "running"
  /\ f.fut.kind # "nest"
  /\ FreeWorkers > 0
  /\ FiberRunnable(f.fut, chan)
  /\ fibers' = Deliver(fibers \ {f}, f)
  /\ chan' = IF f.fut.kind = "send"
               THEN [chan EXCEPT ![f.fut.val] = SentValue(f.fut.val)]
               ELSE chan
  /\ monitor' = IF f.owner \in Threads
                  THEN [monitor EXCEPT ![f.owner] = FiberResult(f.fut, chan)]
                  ELSE monitor
  /\ UNCHANGED <<THREAD_COUNT, once, GLOBAL_EXECUTOR, executor, driver, avail, pc, op,
                 current, count, ret, calls, hist>>

\* a scheduler thread starts the task that calls execute: execute's
\* handle().spawn_monitor(future) (lib.rs 124) spawns the task's computation,
\* and the scheduler thread enters the loop
NestStart(f) ==
  /\ f \in fibers
  /\ driver = "running"
  /\ f.fut = NestFut
  /\ FreeWorkers > 0
  /\ fibers' = (fibers \ {f}) \cup {[f EXCEPT !.fut = Fut("nest", 1)],
                                     FiberOf(f.by, OkFut, -1)}
  /\ UNCHANGED <<THREAD_COUNT, once, GLOBAL_EXECUTOR, executor, driver, monitor, chan,
                 avail, pc, op, current, count, ret, calls, hist>>

\* the task's poll finds its Monitor Ready: execute returns (lib.rs 129), the
\* task ends and its scheduler thread is free again
NestFinish(f) ==
  /\ f \in fibers
  /\ driver = "running"
  /\ f.fut = Fut("nest", 2)
  /\ fibers' = fibers \ {f}
  /\ UNCHANGED <<THREAD_COUNT, once, GLOBAL_EXECUTOR, executor, driver, monitor, chan,
                 avail, pc, op, current, count, ret, calls, hist>>

\* executor.run() returns an error: the driver thread panics (lib.rs 86-88), the
\* executor is dropped with its fibers, and their monitors see Aborted
DriverDie ==
  /\ driver = "running"
  /\ driver' = "dead"
  /\ fibers' = {}
  /\ monitor' = [t \in Threads |->
                   IF \E f \in fibers : f.owner = t THEN Aborted ELSE monitor[t]]
  /\ UNCHANGED <<THREAD_COUNT, once, GLOBAL_EXECUTOR, executor, chan, avail, pc, op,
                 current, count, ret, calls, hist>>

\* ------------------------------------------------------ specification
\* the calls that threads make
GateCall(t) == \E n \in SetArgs : SetInvoke(t, n)
SchedCall(t) ==
  \/ handle(t)
  \/ \E f \in SendFuts : spawn(t, f)
  \/ spawn_monitor(t)
  \/ \E f \in {OkFut, ErrFut, JoinFut} : execute(t, f)
\* the steps a thread takes by itself once it is in a call
SetStep(t) == SetLoad(t) \/ SetCas(t)
SchedStep(t) ==
  \/ OnceResume(t) \/ OncePoisoned(t)
  \/ InitSwap(t) \/ InitBuild(t) \/ InitBuildFail(t) \/ InitPublish(t)
  \/ ExecutePoll(t) \/ ExecuteSleep(t)
\* the executor's scheduler threads
ExecutorStep == \E f \in fibers : RunFiber(f)

Next ==
  \/ \E t \in Threads : GateCall(t) \/ SetStep(t) \/ SchedCall(t) \/ SchedStep(t)
  \/ ExecutorStep
  \/ DriverDie

Spec == Init /\ [][Next]_vars

\* The scheduling calls alone, under fair scheduling: the operating system
\* schedules every thread that can take a step, and a running executor runs
\* every fiber that can run.  Nothing obliges a caller to call, the
\* construction to succeed or the driver to live.  set_thread_count is left
\* out: the only thing it shares with these calls is THREAD_COUNT, which they
\* read once, in the initializer.
SchedNext ==
  \/ \E t \in Threads : SchedCall(t) \/ SchedStep(t)
  \/ ExecutorStep
  \/ DriverDie

FairSpec ==
  /\ Init /\ [][SchedNext]_vars
  /\ \A t \in Threads : WF_vars(SchedStep(t))
  /\ WF_vars(ExecutorStep)

\* The calls that ordinary threads make, and a task that calls execute from
\* inside the executor.
spawn_nested(t) == NestFut \in avail /\ SchedInvoke(t, "spawn", NestFut)
NestStep == \E f \in fibers : NestStart(f) \/ NestFinish(f)

PoolNext ==
  \/ \E t \in Threads : GateCall(t) \/ SetStep(t) \/ SchedCall(t) \/ SchedStep(t)
  \/ \E t \in Threads : spawn_nested(t)
  \/ ExecutorStep
  \/ NestStep
  \/ DriverDie

PoolSpec == Init /\ [][PoolNext]_vars

\* The whole crate with its client threads scheduled fairly in
\* set_thread_count: a thread inside the loop of lib.rs 67-75 gets to take its
\* next step.
GateFairSpec == Spec /\ \A t \in Threads : WF_vars(SetStep(t))

\* ============================================================ claims
True  == Tag("True", 0)
False == Tag("False", 0)
\* thread t has made a set_thread_count call that passed the assertions and returned
SetReturned(t) == op[t].name = "set" /\ AssertsPass(op[t].n) /\ pc[t] = "idle"
Built == hist.builds > 0
\* the worker count that follows from the last store before the swap
CountFor(writer) == IF writer = 0 THEN NumCpus ELSE writer

\* C1: a set_thread_count(n) call invoked after the global executor has been
\* initialized returns false, and the worker count the executor was built with
\* is the same after the call as before it.
C1_SetAfterInitFails ==
  \A t \in Threads :
    (SetReturned(t) /\ hist.call[t].afterInit) =>
      /\ ret[t] = False
      /\ executor.workers = hist.call[t].workersSeen
      /\ executor.workers = CountFor(hist.writerAtSwap)

C1_Witness ==
  \E t \in Threads :
    /\ SetReturned(t) /\ hist.call[t].afterInit /\ ret[t] = False
    /\ executor.workers # op[t].n

\* C2: two set_thread_count calls with distinct n1, n2 that complete one after
\* the other before the first scheduling call both return true, and the
\* executor is then built with n2 workers.  (hist.soloN is the n of the latest
\* call when it ran alone and before any scheduling call, hist.prevSolo that of
\* the call before it.)
C2_LastSequentialRequestWins ==
  /\ \A t \in Threads :
       (SetReturned(t) /\ hist.call[t].doneBeforeSched) => ret[t] = True
  /\ (Built /\ hist.soloN # 0) => executor.workers = hist.soloN

C2_Witness ==
  /\ Built
  /\ hist.prevSolo # 0 /\ hist.soloN # 0 /\ hist.prevSolo # hist.soloN
  /\ executor.workers = hist.soloN
  /\ \E t \in Threads : SetReturned(t) /\ hist.call[t].doneBeforeSched /\ ret[t] = True

\* C3: when the initializer's swap finds the cell UNSET (no set_thread_count
\* stored before it) the executor is built with the host's CPU count; otherwise
\* it is built with exactly the value the swap read, which is the last value
\* stored.
C3_DefaultOrValueRead ==
  /\ \A t \in Threads :
       pc[t] = "init_build" =>
         count[t] = (IF hist.swapped = UNSET THEN NumCpus ELSE hist.swapped)
  /\ Built =>
       /\ executor.workers = (IF hist.swapped = UNSET THEN NumCpus ELSE hist.swapped)
       /\ (hist.swapped = UNSET) = (hist.writerAtSwap = 0)
       /\ hist.swapped # UNSET => hist.swapped = hist.writerAtSwap

C3_Witness ==
  /\ Built /\ hist.swapped = UNSET /\ executor.workers = NumCpus
  /\ \E t \in Threads : SetReturned(t) /\ ret[t] = False

\* C4: under every interleaving of set_thread_count calls with the
\* initializer's swap, a call returns true only if its own compare_and_swap put
\* its n into a cell that was not LOCKED, returns false only if it saw LOCKED and
\* never stored, the executor's worker count is the n of the last store before
\* the swap (the CPU count without one), and nothing is stored after the swap.
C4_EachCallLearnsItsOwnOutcome ==
  /\ \A t \in Threads :
       SetReturned(t) =>
         /\ ret[t] = True =>
              /\ hist.call[t].wrote
              /\ hist.call[t].after = op[t].n
              /\ hist.call[t].over # LOCKED
         /\ ret[t] = False => (current[t] = LOCKED /\ ~hist.call[t].wrote)
  /\ Built => executor.workers = CountFor(hist.lastWriter)
  /\ ~hist.lateWrite

\* two calls that raced the initializer: one stored in time, the other loaded
\* before the swap and lost its compare_and_swap to it
C4_Witness ==
  /\ Built
  /\ \E t, u \in Threads :
       /\ SetReturned(t) /\ ret[t] = True
       /\ SetReturned(u) /\ ret[u] = False /\ ~hist.call[u].frozenAtInvoke
       /\ executor.workers = hist.lastWriter

\* C5 as stated: exactly the calls invoked before the freeze return true, and
\* all calls invoked after it return false.
C5_InvokedBeforeFreezeReturnsTrue ==
  \A t \in Threads :
    SetReturned(t) => (ret[t] = True) = ~hist.call[t].frozenAtInvoke

\* C5 as amended: every call that returns true was invoked before the freeze
\* and stored before it; every call invoked after the freeze returns false; a
\* call invoked before the freeze returns false only when the freeze came
\* before its compare_and_swap could store; every call returns one boolean, and
\* none while it is still in its loop; the worker count is that of the last
\* writer.
C5_TrueOnlyBeforeFreeze ==
  /\ \A t \in Threads :
       /\ SetReturned(t) =>
            /\ ret[t] \in {True, False}
            /\ ret[t] = True => (~hist.call[t].frozenAtInvoke /\ hist.call[t].wrote)
            /\ hist.call[t].frozenAtInvoke => ret[t] = False
            /\ ret[t] = False => (hist.swaps > 0 /\ ~hist.call[t].wrote)
       /\ InSet(t) => ret[t] = None
  /\ ~hist.lateWrite
  /\ hist.lastWriter = hist.writerAtSwap \/ hist.swaps = 0
  /\ Built => executor.workers = CountFor(hist.lastWriter)

C5_Witness ==
  \E t, u \in Threads :
    /\ SetReturned(t) /\ ret[t] = False /\ ~hist.call[t].frozenAtInvoke
    /\ SetReturned(u) /\ ret[u] = False /\ hist.call[u].frozenAtInvoke

\* C6: under concurrent first calls of handle(), spawn, spawn_monitor and
\* execute the executor is built by one caller: get_thread_count runs once, one
\* executor and one driver thread are created, a thread blocked on the Once is
\* never ahead of the initializer, nobody holds a handle before construction is
\* complete, and every handle refers to the one executor.
Initializing(t) == pc[t] \in {"init_swap", "init_build", "init_publish"}
C6_BuiltExactlyOnce ==
  /\ hist.swaps <= 1 /\ hist.builds <= 1 /\ hist.drivers <= 1
  /\ Cardinality({t \in Threads : Initializing(t)}) <= 1
  /\ (once = "Running") = (\E t \in Threads : Initializing(t))
  /\ once = "Complete" => (hist.swaps = 1 /\ hist.builds = 1 /\ hist.drivers = 1
                           /\ GLOBAL_EXECUTOR = executor.id /\ GLOBAL_EXECUTOR = 1)
  /\ once # "Complete" => GLOBAL_EXECUTOR = 0
  /\ \A t \in Threads :
       /\ pc[t] = "wait" => once # "Incomplete"
       /\ hist.call[t].handle # -1 =>
            (once = "Complete" /\ hist.call[t].handle = GLOBAL_EXECUTOR)
       /\ ret[t].tag = "Handle" => ret[t].val = GLOBAL_EXECUTOR /\ once = "Complete"

\* three threads made their first scheduling calls together: one ran the
\* initializer, the other two blocked, and all hold a handle of the one executor
C6_Witness ==
  \E t, u, w \in Threads :
    /\ t # u /\ u # w /\ t # w
    /\ count[t] # 0 /\ hist.call[t].handle = 1
    /\ hist.call[u].handle = 1 /\ hist.call[u].blocked
    /\ hist.call[w].handle = 1 /\ hist.call[w].blocked
    /\ op[t].name # op[u].name /\ op[u].name # op[w].name /\ op[t].name # op[w].name

\* C10: once the initializer has replaced the cell with LOCKED it holds LOCKED
\* in every later state, also when a call that loaded before the freeze does
\* its compare_and_swap afterwards; every call that starts after the freeze
\* fails and stores nothing.
C10_LockedIsFinal ==
  /\ hist.swaps > 0 => THREAD_COUNT = LOCKED
  /\ \A t \in Threads :
       /\ (pc[t] = "set_load" /\ hist.call[t].over = LOCKED) => ~hist.call[t].wrote
       /\ (SetReturned(t) /\ hist.call[t].frozenAtInvoke) =>
            (ret[t] = False /\ ~hist.call[t].wrote /\ current[t] = LOCKED)

\* a call loaded before the freeze, did its compare_and_swap after it, and
\* returned false after loading LOCKED; the cell is still LOCKED
C10_Witness ==
  /\ THREAD_COUNT = LOCKED
  /\ \E t \in Threads :
       /\ SetReturned(t) /\ ret[t] = False
       /\ hist.call[t].over = LOCKED /\ ~hist.call[t].frozenAtInvoke

Ok(v)  == Tag("Ok", v)
Err(e) == Tag("Err", e)
Executing(t) == op[t].name = "execute"
InLoop(t) == pc[t] \in {"poll", "sleep"}
Panicked(t) == pc[t] = "panicked"

\* C7: execute returns only once the monitor of its computation is terminal,
\* and what it returns is that state: Ok(v) exactly for Ready(v), Err(e) exactly
\* for Failed(e); a failed computation is not a panic and not Aborted; while
\* the monitor is Pending nothing is returned.
C7_ExecuteReturnsTheMonitorsState ==
  \A t \in Threads :
    Executing(t) =>
      /\ pc[t] = "idle" =>
           /\ monitor[t].tag \in {"Ready", "Failed"}
           /\ monitor[t].tag = "Ready" => ret[t] = Ok(monitor[t].val)
           /\ monitor[t].tag = "Failed" => ret[t] = Err(monitor[t].val)
           /\ op[t].fut = OkFut => ret[t] = Ok(OkFut.val)
           /\ op[t].fut = ErrFut => ret[t] = Err(ErrFut.val)
      /\ ret[t].tag = "PanicAborted" => monitor[t] = Aborted
      /\ monitor[t].tag = "Failed" => ~Panicked(t)
      /\ (InLoop(t) /\ monitor[t] = Pending) => ret[t] = None

C7_Witness ==
  \E t, u \in Threads :
    /\ Executing(t) /\ op[t].fut = OkFut /\ pc[t] = "idle" /\ ret[t] = Ok(7)
    /\ Executing(u) /\ op[u].fut = ErrFut /\ pc[u] = "idle" /\ ret[u] = Err(9)

\* C8: the two fibers spawned with spawn run to their end without anybody
\* watching them, and an execute of the join of what they send returns the sum
\* of both values, Ok(3), whatever order the executor runs the three fibers in
\* (as long as the executor's driver lives).
SendFiber(i) == \E f \in fibers : f.fut = Fut("send", i)
SendSpawned(i) == SendFiber(i) \/ chan[i] # 0
JoinCall(t) == Executing(t) /\ op[t].fut = JoinFut
C8_JoinOfSpawnedSendsReturnsSum ==
  /\ [](\A t \in Threads : (JoinCall(t) /\ pc[t] = "idle") => ret[t] = Ok(3))
  /\ \A i \in 0..1 : SendFiber(i) ~> (chan[i] = SentValue(i) \/ driver = "dead")
  /\ \A t \in Threads :
       (JoinCall(t) /\ InLoop(t) /\ SendSpawned(0) /\ SendSpawned(1))
         ~> ((pc[t] = "idle" /\ ret[t] = Ok(3)) \/ driver = "dead")

C8_Witness ==
  \E t \in Threads :
    /\ JoinCall(t) /\ pc[t] = "idle" /\ ret[t] = Ok(3)
    /\ chan[0] = 1 /\ chan[1] = 2 /\ fibers = {}

\* C9: execute has no timeout: a caller whose monitor is Pending is still in
\* its poll-sleep loop after every step; and with the caller scheduled fairly,
\* once the monitor is terminal the call ends, by returning or by the panic.
C9_ExecuteLeavesOnlyOnTerminal ==
  /\ [][\A t \in Threads : (InLoop(t) /\ monitor[t] = Pending) => InLoop(t)']_vars
  /\ \A t \in Threads :
       (InLoop(t) /\ monitor[t] # Pending) ~> (pc[t] = "idle" \/ Panicked(t))

\* a caller asleep in the loop whose monitor has become Ready meanwhile
C9_Witness ==
  \E t \in Threads : pc[t] = "sleep" /\ monitor[t].tag = "Ready"

\* C11: when the driver thread ends after a successful start, every execute
\* whose computation had not finished sees Aborted, whether it was submitted
\* before the death or after it; such a call never returns Ok or Err, and with
\* the caller scheduled fairly it ends in the panic; and nobody panics with
\* Aborted while the driver lives.
PanicAborted == Tag("PanicAborted", 0)
C11_DriverDeathIsFatalNotAnError ==
  /\ [](\A t \in Threads :
          Executing(t) =>
            /\ (driver = "dead" /\ InLoop(t)) => monitor[t] # Pending
            /\ hist.call[t].dead => monitor[t] = Aborted
            /\ monitor[t] = Aborted =>
                 (driver = "dead" /\ pc[t] # "idle" /\ ret[t].tag \notin {"Ok", "Err"})
            /\ ret[t] = PanicAborted => (driver = "dead" /\ monitor[t] = Aborted))
  /\ [][\A t \in Threads :
          (driver = "running" /\ driver' = "dead" /\ InLoop(t) /\ monitor[t] = Pending)
            => monitor'[t] = Aborted]_vars
  /\ \A t \in Threads :
       (InLoop(t) /\ monitor[t] = Aborted) ~> (Panicked(t) /\ ret[t] = PanicAborted)

\* one execute was outstanding when the driver died, another was submitted
\* afterwards; both ended in the panic
C11_Witness ==
  \E t, u \in Threads :
    /\ Executing(t) /\ ~hist.call[t].dead /\ Panicked(t) /\ ret[t] = PanicAborted
    /\ Executing(u) /\ hist.call[u].dead /\ Panicked(u) /\ ret[u] = PanicAborted

\* the part of C12 about the calls: the initializer's caller panics, the
\* static never gets a value, nobody holds a handle or is past handle(), no
\* executor and no driver exist, and every other scheduling call has panicked
\* or is about to (it blocked on the Once while the initializer ran)
SchedCalling(t) == op[t].name \in {"handle", "spawn", "spawn_monitor", "execute"}
C12_FailureIsFatalEverywhere ==
  once = "Poisoned" =>
    /\ GLOBAL_EXECUTOR = 0 /\ executor = NoExecutor /\ driver = "none" /\ fibers = {}
    /\ Cardinality({t \in Threads : ret[t] = Tag("PanicCreate", 0)}) = 1
    /\ \A t \in Threads :
         /\ hist.call[t].handle = -1
         /\ SchedCalling(t) =>
              \/ Panicked(t) /\ ret[t].tag \in {"PanicCreate", "PanicPoisoned"}
              \/ pc[t] = "wait"

\* C12: when the construction of the executor fails, the call that triggered
\* it panics, no handle is ever handed out, every later scheduling call panics
\* too, and the static is not left half initialized: the cell is not frozen
\* at LOCKED with no executor to show for it.
C12_FailedConstructionLeavesNothingBehind ==
  /\ C12_FailureIsFatalEverywhere
  /\ once = "Poisoned" => THREAD_COUNT # LOCKED

\* C13: a caller blocked in execute's loop never keeps the executor from
\* running what was submitted: whenever a thread, or a task, waits in execute
\* for a computation that has not finished, and the driver lives, a scheduler
\* thread is free to run it.
WaitingInExecute ==
  \/ \E t \in Threads : InLoop(t) /\ monitor[t] = Pending
  \/ \E f \in fibers : f.fut = Fut("nest", 1)
C13_BlockedExecuteLeavesAWorkerFree ==
  (driver = "running" /\ WaitingInExecute) => FreeWorkers > 0

\* C14: the executor is created lazily: as long as no handle(), spawn,
\* spawn_monitor or execute call has started, the Once is Incomplete, the cell is
\* not LOCKED, and nothing has been swapped, built or spawned, however many
\* set_thread_count calls have run; and it is built at most once.
C14_NothingIsBuiltBeforeFirstUse ==
  /\ ~hist.schedStarted =>
       /\ once = "Incomplete" /\ THREAD_COUNT # LOCKED
       /\ GLOBAL_EXECUTOR = 0 /\ executor = NoExecutor /\ driver = "none"
       /\ hist.swaps = 0 /\ hist.builds = 0 /\ hist.drivers = 0
  /\ hist.builds <= 1

\* every call the threads could make was a set_thread_count, one of them has
\* stored its count, and nothing has been built
C14_Witness ==
  /\ ~hist.schedStarted /\ calls = MaxCalls /\ once = "Incomplete"
  /\ \E t \in Threads : SetReturned(t) /\ ret[t] = True /\ THREAD_COUNT = op[t].n

\* C15: set_thread_count(0) and set_thread_count(usize::MAX) panic: the call
\* returns no boolean and never enters the loop, the step that makes the call
\* leaves the cell as it was, a cell that holds a count is never put back to
\* UNSET, and a count in the cell is the n that some call stored (nothing is
\* clamped).
Rejected(n) == n \in {UNSET, LOCKED}
C15_InvalidCountPanics ==
  /\ [](\A t \in Threads :
          (op[t].name = "set" /\ Rejected(op[t].n)) =>
            /\ Panicked(t) /\ ret[t] = Tag("PanicAssert", 0)
            /\ ~hist.call[t].wrote)
  /\ [](THREAD_COUNT \in Counts => THREAD_COUNT = hist.lastWriter)
  /\ [][(\E t \in Threads : pc[t] = "idle" /\ calls' > calls
                              /\ op'[t].name = "set" /\ Rejected(op'[t].n))
          => THREAD_COUNT' = THREAD_COUNT]_vars
  /\ [][THREAD_COUNT # UNSET => THREAD_COUNT' # UNSET]_vars

\* one thread passed 0 and another usize::MAX; both panicked, and the count a
\* third call stored is still in the cell
C15_Witness ==
  /\ THREAD_COUNT \in Counts
  /\ \E t, u \in Threads :
       /\ op[t].name = "set" /\ op[t].n = UNSET /\ Panicked(t)
       /\ op[u].name = "set" /\ op[u].n = LOCKED /\ Panicked(u)

\* C16: the cell holds UNSET, a count or LOCKED; it changes only from UNSET or
\* a count to a count, by a set_thread_count that then returns true, and from
\* UNSET or a count to LOCKED, by the initializer's swap; it never goes back to
\* UNSET and never leaves LOCKED; and the worker count handed to the
\* constructor is a count or the CPU count, never 0 and never LOCKED.
C16_CellDomainAndTransitions ==
  /\ [](/\ THREAD_COUNT \in {UNSET, LOCKED} \cup Counts
        /\ \A t \in Threads :
             pc[t] \in {"init_build", "init_publish", "init_done"} =>
               (count[t] \in Counts \cup {NumCpus} /\ count[t] \notin {UNSET, LOCKED})
        /\ Built => (executor.workers \in Counts \cup {NumCpus}
                     /\ executor.workers \notin {UNSET, LOCKED}))
  /\ [][THREAD_COUNT' # THREAD_COUNT =>
          /\ THREAD_COUNT # LOCKED
          /\ THREAD_COUNT' # UNSET
          /\ THREAD_COUNT' = LOCKED =>
               \E t \in Threads : pc[t] = "init_swap" /\ pc'[t] = "init_build"
          /\ THREAD_COUNT' # LOCKED =>
               \E t \in Threads : /\ pc[t] = "set_cas" /\ pc'[t] = "idle"
                                  /\ ret'[t] = True
                                  /\ THREAD_COUNT' = op[t].n /\ op[t].n \in Counts]_vars

\* the cell went from UNSET to a count, from that count to another, and from
\* there to LOCKED; the executor was built with the second count
C16_Witness ==
  /\ Built /\ THREAD_COUNT = LOCKED /\ hist.swapped \in Counts
  /\ executor.workers = hist.swapped
  /\ \E t, u \in Threads :
       /\ SetReturned(t) /\ ret[t] = True
       /\ SetReturned(u) /\ ret[u] = True /\ op[t].n # op[u].n

\* C17: set_thread_count goes round its loop again only when the cell no
\* longer holds what the call loaded; a call that starts after the freeze
\* returns false at its first load and never tries to store; and with its
\* thread scheduled fairly every call that is in the loop returns.
C17_RetryLoopTerminates ==
  /\ [][\A t \in Threads :
          (pc[t] = "set_cas" /\ pc'[t] = "set_load") => THREAD_COUNT # current[t]]_vars
  /\ [](\A t \in Threads :
          (op[t].name = "set" /\ op[t].n \in Counts /\ hist.call[t].frozenAtInvoke) =>
            /\ pc[t] = "idle" /\ ret[t] = False
            /\ ~hist.call[t].wrote /\ hist.call[t].over = 0 /\ hist.call[t].after = 0)
  /\ \A t \in Threads : InSet(t) ~> (pc[t] = "idle" /\ ret[t] \in {True, False})

\* a call lost its compare_and_swap to another call, which has returned true,
\* and is about to load again
C17_Witness ==
  \E t, u \in Threads :
    /\ pc[t] = "set_load" /\ hist.call[t].over \in Counts /\ ~hist.call[t].wrote
    /\ SetReturned(u) /\ ret[u] = True /\ op[u].n = hist.call[t].over

====
